---------------------------- MODULE Spec2Model ----------------------------
(***************************************************************************)
(* A model of src/downloader.py: the name/branch resolver                  *)
(* (get_repo_name, get_default_branch), the release asset fetcher          *)
(* (download_latest_release) and the branch archive fetcher                *)
(* (download_github_repo).                                                 *)
(*                                                                         *)
(* Python strings that the code inspects (the repository URL, directory    *)
(* entries) are sequences of one-character strings.  Exceptions are named  *)
(* by the text str(e) yields.  Progress fractions are exact rationals      *)
(* <<numerator, denominator>>; the floating point operations of the code   *)
(* (a division, a multiplication by 0.8, min) are monotone and exact at    *)
(* the end points, which is all the properties below use.                  *)
(***************************************************************************)
EXTENDS Integers, Sequences, FiniteSets, TLC

(***************************************************************************)
(* Bounds of the model.                                                    *)
(***************************************************************************)
MaxPieces == 2      \* pieces a repository segment is built from
MaxTotal == 3       \* declared content-lengths run from -1 to MaxTotal
BigTotal == 20      \* and one that is many chunks long
MaxChunks == 3      \* chunks a response body is streamed in
MaxChunkLen == 2    \* largest chunk
MaxEntries == 2     \* entries of a directory listing

(***************************************************************************)
(* Strings.                                                                *)
(***************************************************************************)
UpperChars == <<"A","B","C","D","E","F","G","H","I","J","K","L","M",
                "N","O","P","Q","R","S","T","U","V","W","X","Y","Z">>
LowerChars == <<"a","b","c","d","e","f","g","h","i","j","k","l","m",
                "n","o","p","q","r","s","t","u","v","w","x","y","z">>

\* str.lower() on one character
LowerChar(c) ==
    IF \E i \in 1..Len(UpperChars) : UpperChars[i] = c
    THEN LowerChars[CHOOSE i \in 1..Len(UpperChars) : UpperChars[i] = c]
    ELSE c

\* str.lower()
Lower(s) == [i \in 1..Len(s) |-> LowerChar(s[i])]

\* s[i:].startswith(p), i counted from 1
StartsWithAt(s, i, p) ==
    /\ i + Len(p) - 1 <= Len(s)
    /\ \A k \in 1..Len(p) : s[i + k - 1] = p[k]

\* the operator `p in s` of str
Contains(s, p) == \E i \in 1..(Len(s) + 1) : StartsWithAt(s, i, p)

EndsWith(s, p) == Len(p) <= Len(s) /\ StartsWithAt(s, Len(s) - Len(p) + 1, p)

DOTGIT == <<".","g","i","t">>
GITHUB == <<"g","i","t","h","u","b",".","c","o","m","/">>
GITLAB == <<"g","i","t","l","a","b",".","c","o","m","/">>
HTTPS == <<"h","t","t","p","s",":","/","/">>
SLASH == <<"/">>
PLACEHOLDER == <<"d","o","w","n","l","o","a","d","e","d","_","r","e","p","o">>
MAIN == <<"m","a","i","n">>
MASTER == <<"m","a","s","t","e","r">>

\* str.replace(".git", ""): every occurrence, left to right, non-overlapping
RECURSIVE ReplaceDotGit(_)
ReplaceDotGit(s) ==
    IF Len(s) < Len(DOTGIT) THEN s
    ELSE IF StartsWithAt(s, 1, DOTGIT)
         THEN ReplaceDotGit(SubSeq(s, Len(DOTGIT) + 1, Len(s)))
         ELSE <<s[1]>> \o ReplaceDotGit(Tail(s))

\* the end (exclusive) of the longest run of characters other than "/" from i
RECURSIVE RunEnd(_, _)
RunEnd(s, i) == IF i > Len(s) \/ s[i] = "/" THEN i ELSE RunEnd(s, i + 1)

\* r"github\.com/([^/]+)/([^/]+)" matched at position i: both [^/]+ are
\* greedy, and a shorter owner run is followed by a character that is no "/"
MatchAt(s, i) ==
    LET o == i + Len(GITHUB)
        oEnd == RunEnd(s, o)
        r == oEnd + 1
        rEnd == RunEnd(s, r)
    IN  /\ StartsWithAt(s, i, GITHUB)
        /\ oEnd > o
        /\ oEnd <= Len(s)
        /\ rEnd > r

\* re.search: the leftmost match, as [found, owner, repo]
ReSearch(s) ==
    IF \E i \in 1..Len(s) : MatchAt(s, i)
    THEN LET i == CHOOSE k \in 1..Len(s) :
                      MatchAt(s, k) /\ \A j \in 1..(k - 1) : ~MatchAt(s, j)
             o == i + Len(GITHUB)
             oEnd == RunEnd(s, o)
             rEnd == RunEnd(s, oEnd + 1)
         IN  [found |-> TRUE,
              owner |-> SubSeq(s, o, oEnd - 1),
              repo |-> SubSeq(s, oEnd + 1, rEnd - 1)]
    ELSE [found |-> FALSE, owner |-> <<>>, repo |-> <<>>]

get_repo_name(repo_url) ==
    LET m == ReSearch(repo_url)
    IN  IF m.found THEN ReplaceDotGit(m.repo) ELSE PLACEHOLDER

(***************************************************************************)
(* The answer to the repository-metadata request of get_default_branch.    *)
(*   raise    requests.get raises (network, timeout)                       *)
(*   status   a status other than 200                                      *)
(*   badjson  status 200, response.json() raises                           *)
(*   notdict  status 200, a JSON value without .get                        *)
(*   nofield  status 200, an object without default_branch                 *)
(*   field    status 200, an object with default_branch = branch           *)
(***************************************************************************)
MetaKinds == {"raise", "status", "badjson", "notdict", "nofield", "field"}
BranchNames == {MAIN, MASTER}
MetaResponses == [kind : MetaKinds, branch : BranchNames]

\* the answers the fetchers' control flow is explored on
FewMetaResponses ==
    { [kind |-> "raise", branch |-> MAIN], [kind |-> "field", branch |-> MASTER] }

\* get_default_branch asking the API before looking at the URL
get_default_branch_eager(repo_url, resp) ==
    IF resp.kind = "field"
    THEN [branch |-> resp.branch, requests |-> 1]
    ELSE [branch |-> MAIN, requests |-> 1]

\* get_default_branch, as [branch, requests]: the branch returned and the
\* number of metadata requests issued
get_default_branch(repo_url, resp) ==
    LET m == ReSearch(repo_url)
    IN  IF ~m.found
        THEN [branch |-> MAIN, requests |-> 0]
        ELSE IF resp.kind = "field"
             THEN [branch |-> resp.branch, requests |-> 1]
             ELSE [branch |-> MAIN, requests |-> 1]


(***************************************************************************)
(* Progress fractions.                                                     *)
(***************************************************************************)
F005 == <<1, 20>>
F01 == <<1, 10>>
F08 == <<4, 5>>
F085 == <<17, 20>>
F1 == <<1, 1>>
FZero == <<0, 1>>

Leq(a, b) == a[1] * b[2] <= b[1] * a[2]
FEq(a, b) == a[1] * b[2] = b[1] * a[2]
MinFrac(a, b) == IF Leq(a, b) THEN a ELSE b

\* downloaded / total, not clamped
ReleaseFractionUnclamped(dl, tot) == <<dl, tot>>

\* line 63: min(1.0, downloaded / total)
ReleaseFraction(dl, tot) == MinFrac(F1, <<dl, tot>>)

\* downloaded / total, not scaled to the download phase
RepoFractionUnscaled(dl, tot) == MinFrac(F1, <<dl, tot>>)

\* line 96: min(0.8, downloaded / total * 0.8)
RepoFraction(dl, tot) == MinFrac(F08, <<4 * dl, 5 * tot>>)

(***************************************************************************)
(* The content-length header and int(headers.get('content-length', 0)).    *)
(***************************************************************************)
Headers ==
    {[kind |-> "absent", value |-> 0], [kind |-> "bad", value |-> 0]}
        \cup [kind : {"int"}, value : ((-1)..MaxTotal) \cup {BigTotal}]

(***************************************************************************)
(* The file system below save_path after extraction.  A directory is the   *)
(* sequence of its entries in os.listdir order; an entry is                *)
(* [name, isdir, children].  Entries are plain files and directories with  *)
(* ASCII names.                                                            *)
(***************************************************************************)
IREXE == <<"i","n","s","t","a","l","l","e","r","r","e","a","d","y",".","e","x","e">>
IRMIXED == <<"I","n","s","t","a","l","l","e","r","R","e","a","d","y",".","E","X","E">>
IRBAK == <<"i","n","s","t","a","l","l","e","r","r","e","a","d","y",".","e","x","e",".","b","a","k">>
MYREPOMAIN == <<"m","y","r","e","p","o","-","M","A","I","N">>
MYDIR == <<"M","y">>
SUBDIR == <<"s","u","b">>
DEEPDIR == <<"d","i","r">>
HTTPSHOST == HTTPS \o GITHUB
OWNER == <<"o">>
MYREPO == <<"M","y","R","e","p","o">>

File(n) == [name |-> n, isdir |-> FALSE, children |-> <<>>]
Dir(n, c) == [name |-> n, isdir |-> TRUE, children |-> c]

\* what a directory below save_path may hold
SubTrees ==
    { <<>>,
      <<File(IRMIXED)>>,
      <<File(IRBAK)>>,
      <<Dir(IREXE, <<>>)>>,
      <<File(IRBAK), Dir(SUBDIR, <<File(IREXE)>>)>>,
      <<Dir(SUBDIR, <<Dir(DEEPDIR, <<File(IRMIXED)>>)>>)>> }

TopNames == {MYREPOMAIN, MYDIR, IRMIXED}
TopEntries ==
    {File(n) : n \in TopNames} \cup {Dir(n, c) : n \in TopNames, c \in SubTrees}

RECURSIVE ListingsUpTo(_)
ListingsUpTo(k) ==
    IF k = 0 THEN {<<>>}
    ELSE LET shorter == ListingsUpTo(k - 1)
         IN  shorter \cup
             { Append(l, e) : l \in {x \in shorter : Len(x) = k - 1},
                              e \in TopEntries }

DistinctNames(l) ==
    \A i, j \in 1..Len(l) : i # j => l[i].name # l[j].name

\* the listings of save_path the scan is explored on
Listings == {l \in ListingsUpTo(MaxEntries) : DistinctNames(l)}

\* the listings the fetchers' control flow is explored on
FewListings ==
    { <<>>,
      <<File(MYDIR), Dir(MYREPOMAIN, <<Dir(SUBDIR, <<File(IRMIXED)>>)>>)>>,
      <<Dir(MYDIR, <<File(IRBAK)>>)>> }

\* the scan of lines 105-112 without the two .lower()
SelectIndexNoLower(l, name) ==
    IF \E i \in 1..Len(l) : l[i].isdir /\ Contains(l[i].name, name)
    THEN CHOOSE i \in 1..Len(l) :
            /\ l[i].isdir /\ Contains(l[i].name, name)
            /\ \A j \in 1..(i - 1) : ~(l[j].isdir /\ Contains(l[j].name, name))
    ELSE 0

\* lines 105-112: the index of the first entry that is a directory whose
\* lowered name contains the lowered repository name; 0 when there is none
SelectIndex(l, name) ==
    LET hit(i) == l[i].isdir /\ Contains(Lower(l[i].name), Lower(name))
    IN  IF \E i \in 1..Len(l) : hit(i)
        THEN CHOOSE i \in 1..Len(l) : hit(i) /\ \A j \in 1..(i - 1) : ~hit(j)
        ELSE 0

\* extracted_folder as the path below save_path: <<>> is save_path itself
FolderPath(l, i) == IF i = 0 THEN <<>> ELSE <<l[i].name>>

\* the directory at a path below save_path, where os.walk starts
TreeAt(l, path) ==
    IF path = <<>> THEN l
    ELSE l[CHOOSE i \in 1..Len(l) : l[i].name = path[1]].children

\* the check of line 120 on the top directory alone
WalkTopOnly(tree) ==
    \E i \in 1..Len(tree) : ~tree[i].isdir /\ Lower(tree[i].name) = IREXE

\* lines 118-122: os.walk top-down; files holds the entries that are no
\* directories
RECURSIVE WalkFinds(_)
WalkFinds(tree) ==
    \/ \E i \in 1..Len(tree) : ~tree[i].isdir /\ Lower(tree[i].name) = IREXE
    \/ \E i \in 1..Len(tree) : tree[i].isdir /\ WalkFinds(tree[i].children)


(***************************************************************************)
(* The inputs: repository URLs, as [text, kind, owner, repo].  kind tells  *)
(* how the text was built:                                                 *)
(*   form     <prefix>github.com/<owner>/<repo>                            *)
(*   longer   a URL of the form followed by /<more>                        *)
(*   nomatch  another host, or no repository segment                       *)
(***************************************************************************)
Pieces == {<<"r">>, DOTGIT, <<"h","u","b">>}

RECURSIVE Concats(_)
Concats(k) ==
    IF k = 0 THEN {<<>>}
    ELSE LET shorter == Concats(k - 1)
         IN  shorter \cup {a \o b : a \in shorter, b \in Pieces}

Repos == Concats(MaxPieces) \ {<<>>}
Prefixes == {<<>>, HTTPS}

FormUrls ==
    { [text |-> pre \o GITHUB \o OWNER \o SLASH \o r,
       kind |-> "form", owner |-> OWNER, repo |-> r] :
      pre \in Prefixes, r \in Repos }
LongerUrls ==
    { [text |-> u.text \o SLASH \o <<"x">>,
       kind |-> "longer", owner |-> u.owner, repo |-> u.repo] : u \in FormUrls }
NoMatchUrls ==
    { [text |-> t, kind |-> "nomatch", owner |-> <<>>, repo |-> <<>>] :
      t \in { <<>>,
              HTTPS \o GITLAB \o OWNER \o SLASH \o <<"r">>,
              HTTPS \o GITHUB \o OWNER,
              HTTPS \o GITHUB \o OWNER \o SLASH,
              HTTPS \o GITHUB \o SLASH \o <<"r">>,
              <<"g","i","t","h","u","b","-","c","o","m","/">> \o OWNER \o SLASH \o <<"r">> } }
ResolverUrls == FormUrls \cup LongerUrls \cup NoMatchUrls

\* the URLs the fetchers are explored on
FetchUrls ==
    { [text |-> HTTPSHOST \o OWNER \o SLASH \o MYREPO \o DOTGIT,
       kind |-> "form", owner |-> OWNER, repo |-> MYREPO \o DOTGIT],
      [text |-> HTTPS \o GITLAB \o OWNER \o SLASH \o MYREPO,
       kind |-> "nomatch", owner |-> <<>>, repo |-> <<>>] }

\* the URLs the scan of save_path is explored on
ScanUrls ==
    FetchUrls \cup
    { [text |-> GITHUB \o OWNER \o SLASH \o DOTGIT,
       kind |-> "form", owner |-> OWNER, repo |-> DOTGIT] }

(***************************************************************************)
(* The state of one invocation.                                            *)
(***************************************************************************)
VARIABLES
    op,               \* the function invoked: "repo" or "release"
    pc,               \* the statement about to run
    url,              \* repo_url
    cb,               \* whether a progress_callback was passed
    emitted,          \* the calls of progress_callback so far
    exc,              \* str(e) of the exception the except clause caught
    excSite,          \* the line that raised it
    result,           \* the value returned
    requests,         \* the HTTP requests issued so far
    repo_name,
    branch,
    meta,             \* the answer of the API to a repository-metadata request
    release,          \* download_latest_release: the release JSON
    header,           \* the content-length header of the streamed response
    total,
    downloaded,
    nchunks,          \* chunks delivered by iter_content so far
    file,             \* download_latest_release: local_file on disk
    listing,          \* download_github_repo: save_path after extraction
    extracted_folder,
    exe_found

vars == <<op, pc, url, cb, emitted, exc, excSite, result, requests, repo_name,
          branch, meta, release, header, total, downloaded, nchunks, file,
          listing, extracted_folder, exe_found>>

NoMeta == [kind |-> "none", branch |-> <<>>]
NoHeader == [kind |-> "none", value |-> 0]
NoFile == [touched |-> FALSE, bytes |-> 0, closed |-> FALSE]
Pending == [kind |-> "pending"]
NoneResult == [kind |-> "None"]

InitWith(ops, urls) ==
    /\ op \in ops
    /\ url \in urls
    /\ cb \in BOOLEAN
    /\ pc = "start"
    /\ emitted = <<>>
    /\ exc = "none"
    /\ excSite = 0
    /\ result = Pending
    /\ requests = <<>>
    /\ repo_name = <<>>
    /\ branch = <<>>
    /\ meta = NoMeta
    /\ release = "none"
    /\ header = NoHeader
    /\ total = 0
    /\ downloaded = 0
    /\ nchunks = 0
    /\ file = NoFile
    /\ listing = <<>>
    /\ extracted_folder = <<>>
    /\ exe_found = FALSE

\* raise: control passes to the except clause of the function
Raise(e, site) ==
    /\ pc' = "handler"
    /\ exc' = e
    /\ excSite' = site

\* if progress_callback: progress_callback(frac, msg), then go to next.
\* The callback is the caller's code: it returns or raises.
Emit(frac, fmt, site, raises, next) ==
    IF cb
    THEN /\ emitted' = Append(emitted,
                [frac |-> frac, fmt |-> fmt, e |-> "", site |-> site])
         /\ IF raises THEN Raise("callback error", site)
            ELSE pc' = next /\ UNCHANGED <<exc, excSite>>
    ELSE /\ ~raises
         /\ pc' = next
         /\ UNCHANGED <<emitted, exc, excSite>>

(***************************************************************************)
(* download_github_repo                                                    *)
(***************************************************************************)
\* line 77
ResolveName ==
    /\ op = "repo" /\ pc = "start"
    /\ repo_name' = get_repo_name(url.text)
    /\ pc' = "branch"
    /\ UNCHANGED <<meta, header, op, url, cb, emitted, exc, excSite, result, requests, branch,
                   release, total, downloaded, nchunks, file, listing,
                   extracted_folder, exe_found>>

\* line 78; the zip_url of line 79 is a string no later statement of the
\* model reads
ResolveBranch(responses) ==
    /\ op = "repo" /\ pc = "branch"
    /\ \E resp \in responses :
          LET got == get_default_branch(url.text, resp)
          IN  /\ meta' = resp
              /\ branch' = got.branch
              /\ requests' = requests \o [i \in 1..got.requests |-> "repo_meta"]
    /\ pc' = "connect"
    /\ UNCHANGED <<header, op, url, cb, emitted, exc, excSite, result, repo_name,
                   release, total, downloaded, nchunks, file, listing,
                   extracted_folder, exe_found>>

\* lines 81-82
RepoConnect ==
    /\ op = "repo" /\ pc = "connect"
    /\ \E raises \in BOOLEAN :
          Emit(F005, "Connecting to {repo_name} ({branch})...", 82, raises, "request")
    /\ UNCHANGED <<meta, header, op, url, cb, result, requests, repo_name, branch, release,
                   total, downloaded, nchunks, file, listing, extracted_folder,
                   exe_found>>

\* lines 84-87: the request, raise_for_status, int(content-length)
RepoRequest(headers) ==
    /\ op = "repo" /\ pc = "request"
    /\ requests' = Append(requests, "archive")
    /\ \/ Raise("ConnectionError", 84) /\ UNCHANGED <<total, header>>
       \/ Raise("HTTPError", 85) /\ UNCHANGED <<total, header>>
       \/ \E h \in headers :
             /\ header' = h
             /\ IF h.kind = "bad"
                THEN Raise("ValueError", 87) /\ UNCHANGED total
                ELSE /\ total' = h.value
                     /\ pc' = "stream"
                     /\ UNCHANGED <<exc, excSite>>
    /\ UNCHANGED <<meta, op, url, cb, emitted, result, repo_name, branch, release,
                   downloaded, nchunks, file, listing, extracted_folder,
                   exe_found>>

\* lines 91-96, one turn of the loop: a chunk arrives
RepoChunk(maxChunks) ==
    /\ op = "repo" /\ pc = "stream"
    /\ nchunks < maxChunks
    /\ nchunks' = nchunks + 1
    /\ \E n \in 0..MaxChunkLen :
          IF n = 0
          THEN UNCHANGED <<downloaded, emitted, pc, exc, excSite>>
          ELSE /\ downloaded' = downloaded + n
               /\ IF total > 0
                  THEN \E raises \in BOOLEAN :
                          Emit(RepoFraction(downloaded + n, total),
                               "Downloading {repo_name}...", 96, raises, "stream")
                  ELSE UNCHANGED <<emitted, pc, exc, excSite>>
    /\ UNCHANGED <<meta, header, op, url, cb, result, requests, repo_name, branch, release,
                   total, file, listing, extracted_folder, exe_found>>

\* line 91: iter_content raises in the middle of the body
RepoStreamFails ==
    /\ op = "repo" /\ pc = "stream"
    /\ Raise("ChunkedEncodingError", 91)
    /\ UNCHANGED <<meta, header, op, url, cb, emitted, result, requests, repo_name, branch,
                   release, total, downloaded, nchunks, file, listing,
                   extracted_folder, exe_found>>

\* lines 91, 98-99: the body ends; the extraction is announced
RepoStreamEnds ==
    /\ op = "repo" /\ pc = "stream"
    /\ \E raises \in BOOLEAN :
          Emit(F085, "Extracting {repo_name}...", 99, raises, "extract")
    /\ UNCHANGED <<meta, header, op, url, cb, result, requests, repo_name, branch, release,
                   total, downloaded, nchunks, file, listing, extracted_folder,
                   exe_found>>

\* lines 101-103
RepoExtract(listings) ==
    /\ op = "repo" /\ pc = "extract"
    /\ \/ Raise("BadZipFile", 102) /\ UNCHANGED listing
       \/ Raise("OSError", 103) /\ UNCHANGED listing
       \/ /\ listing' \in listings
          /\ pc' = "scan"
          /\ UNCHANGED <<exc, excSite>>
    /\ UNCHANGED <<meta, header, op, url, cb, emitted, result, requests, repo_name, branch,
                   release, total, downloaded, nchunks, file, extracted_folder,
                   exe_found>>

\* lines 105-112
RepoScan ==
    /\ op = "repo" /\ pc = "scan"
    /\ \/ Raise("OSError", 106) /\ UNCHANGED extracted_folder
       \/ /\ extracted_folder' = FolderPath(listing, SelectIndex(listing, repo_name))
          /\ pc' = "finish"
          /\ UNCHANGED <<exc, excSite>>
    /\ UNCHANGED <<meta, header, op, url, cb, emitted, result, requests, repo_name, branch,
                   release, total, downloaded, nchunks, file, listing, exe_found>>

\* lines 114-115
RepoFinish ==
    /\ op = "repo" /\ pc = "finish"
    /\ \E raises \in BOOLEAN :
          Emit(F1, "{repo_name} downloaded successfully.", 115, raises, "walk")
    /\ UNCHANGED <<meta, header, op, url, cb, result, requests, repo_name, branch, release,
                   total, downloaded, nchunks, file, listing, extracted_folder,
                   exe_found>>

\* lines 117-128
RepoWalk ==
    /\ op = "repo" /\ pc = "walk"
    /\ LET found == WalkFinds(TreeAt(listing, extracted_folder))
       IN  /\ exe_found' = found
           /\ result' = [kind |-> "dict",
                         status |-> IF found THEN "ready" ELSE "no_installer",
                         path |-> extracted_folder,
                         repo_name |-> repo_name]
    /\ pc' = "done"
    /\ UNCHANGED <<meta, header, op, url, cb, emitted, exc, excSite, requests, repo_name,
                   branch, release, total, downloaded, nchunks, file, listing,
                   extracted_folder>>

\* lines 130-133: the except clause; an exception of the callback here
\* leaves the function
RepoHandler ==
    /\ op = "repo" /\ pc = "handler"
    /\ \E raises \in BOOLEAN :
          IF cb
          THEN /\ emitted' = Append(emitted,
                      [frac |-> F1, fmt |-> "Failed to download {repo_url}: {e}",
                       e |-> exc, site |-> 132])
               /\ IF raises
                  THEN /\ pc' = "escaped"
                       /\ UNCHANGED <<result, exc, excSite>>
                  ELSE /\ pc' = "done"
                       /\ result' = [kind |-> "dict", status |-> "error", error |-> exc]
                       /\ UNCHANGED <<exc, excSite>>
          ELSE /\ ~raises
               /\ pc' = "done"
               /\ result' = [kind |-> "dict", status |-> "error", error |-> exc]
               /\ UNCHANGED <<emitted, exc, excSite>>
    /\ UNCHANGED <<meta, header, op, url, cb, requests, repo_name, branch, release, total,
                   downloaded, nchunks, file, listing, extracted_folder,
                   exe_found>>


(***************************************************************************)
(* download_latest_release                                                 *)
(*                                                                         *)
(* The release JSON, by what lines 40-47 do with it:                       *)
(*   notdict   a JSON value without .get                                   *)
(*   noassets  an object without "assets" (or with null)                   *)
(*   empty     "assets": []                                                *)
(*   badasset  a first asset without browser_download_url or name          *)
(*   ok        a first asset with both                                     *)
(***************************************************************************)
ReleaseBodies == {"notdict", "noassets", "empty", "badasset", "ok"}

\* lines 34-35
RelCheck ==
    /\ op = "release" /\ pc = "start"
    /\ \E raises \in BOOLEAN :
          Emit(F005, "Checking latest {repo} release...", 35, raises, "meta")
    /\ UNCHANGED <<meta, header, op, url, cb, result, requests, repo_name, branch, release,
                   total, downloaded, nchunks, file, listing, extracted_folder,
                   exe_found>>

\* lines 37-40
RelMeta ==
    /\ op = "release" /\ pc = "meta"
    /\ requests' = Append(requests, "release_meta")
    /\ \/ Raise("ConnectionError", 38) /\ UNCHANGED release
       \/ Raise("HTTPError", 39) /\ UNCHANGED release
       \/ Raise("JSONDecodeError", 40) /\ UNCHANGED release
       \/ /\ release' \in ReleaseBodies
          /\ pc' = "assets"
          /\ UNCHANGED <<exc, excSite>>
    /\ UNCHANGED <<meta, header, op, url, cb, emitted, result, repo_name, branch, total,
                   downloaded, nchunks, file, listing, extracted_folder,
                   exe_found>>

\* the exception of lines 42-47 on a release JSON, "none" when there is none
AssetError(body) ==
    CASE body = "notdict" -> "AttributeError"
      [] body \in {"noassets", "empty"} -> "No release assets found."
      [] body = "badasset" -> "KeyError"
      [] OTHER -> "none"

\* lines 42-51
RelAssets ==
    /\ op = "release" /\ pc = "assets"
    /\ IF AssetError(release) # "none"
       THEN /\ Raise(AssetError(release),
                     IF release = "badasset" THEN 46 ELSE IF release = "notdict" THEN 42 ELSE 43)
            /\ UNCHANGED emitted
       ELSE \E raises \in BOOLEAN :
               Emit(F01, "Downloading {asset_name}...", 51, raises, "request")
    /\ UNCHANGED <<meta, header, op, url, cb, result, requests, repo_name, branch, release,
                   total, downloaded, nchunks, file, listing, extracted_folder,
                   exe_found>>

\* lines 53-55
RelRequest(headers) ==
    /\ op = "release" /\ pc = "request"
    /\ requests' = Append(requests, "asset")
    /\ \/ Raise("ConnectionError", 53) /\ UNCHANGED <<total, header>>
       \/ Raise("HTTPError", 54) /\ UNCHANGED <<total, header>>
       \/ \E h \in headers :
             /\ header' = h
             /\ IF h.kind = "bad"
                THEN Raise("ValueError", 55) /\ UNCHANGED total
                ELSE /\ total' = h.value
                     /\ pc' = "open"
                     /\ UNCHANGED <<exc, excSite>>
    /\ UNCHANGED <<meta, op, url, cb, emitted, result, repo_name, branch, release,
                   downloaded, nchunks, file, listing, extracted_folder,
                   exe_found>>

\* an open that creates the file before it fails
OpenedEager(ok) == [touched |-> TRUE, bytes |-> 0, closed |-> FALSE]
\* open(local_file, "wb"): the file is created or truncated, unless open fails
Opened(ok) == IF ok THEN [touched |-> TRUE, bytes |-> 0, closed |-> FALSE] ELSE NoFile

\* line 57
RelOpen ==
    /\ op = "release" /\ pc = "open"
    /\ \E ok \in BOOLEAN :
          /\ file' = Opened(ok)
          /\ IF ok THEN pc' = "stream" /\ UNCHANGED <<exc, excSite>>
             ELSE Raise("OSError", 57)
    /\ UNCHANGED <<meta, header, op, url, cb, emitted, result, requests, repo_name, branch,
                   release, total, downloaded, nchunks, listing,
                   extracted_folder, exe_found>>

\* leaving the with block of line 57 closes the file
Closed(f) == [f EXCEPT !.closed = TRUE]

\* lines 58-63, one turn of the loop: a chunk arrives
RelChunk(maxChunks) ==
    /\ op = "release" /\ pc = "stream"
    /\ nchunks < maxChunks
    /\ nchunks' = nchunks + 1
    /\ \E n \in 0..MaxChunkLen :
          IF n = 0
          THEN UNCHANGED <<downloaded, emitted, pc, exc, excSite, file>>
          ELSE \/ /\ Raise("OSError", 60)
                  /\ file' = Closed(file)
                  /\ UNCHANGED <<downloaded, emitted>>
               \/ /\ downloaded' = downloaded + n
                  /\ IF total > 0
                     THEN \E raises \in BOOLEAN :
                            /\ Emit(ReleaseFraction(downloaded + n, total),
                                    "Downloading {asset_name}...", 63, raises, "stream")
                            /\ file' = IF raises /\ cb
                                       THEN Closed([file EXCEPT !.bytes = @ + n])
                                       ELSE [file EXCEPT !.bytes = @ + n]
                     ELSE /\ file' = [file EXCEPT !.bytes = @ + n]
                          /\ UNCHANGED <<emitted, pc, exc, excSite>>
    /\ UNCHANGED <<meta, header, op, url, cb, result, requests, repo_name, branch, release,
                   total, listing, extracted_folder, exe_found>>

\* line 58: iter_content raises in the middle of the body
RelStreamFails ==
    /\ op = "release" /\ pc = "stream"
    /\ Raise("ChunkedEncodingError", 58)
    /\ file' = Closed(file)
    /\ UNCHANGED <<meta, header, op, url, cb, emitted, result, requests, repo_name, branch,
                   release, total, downloaded, nchunks, listing,
                   extracted_folder, exe_found>>

\* lines 58, 65-66: the body ends, both with blocks are left
RelStreamEnds ==
    /\ op = "release" /\ pc = "stream"
    /\ file' = Closed(file)
    /\ \E raises \in BOOLEAN :
          Emit(F1, "{repo} release downloaded successfully.", 66, raises, "return")
    /\ UNCHANGED <<meta, header, op, url, cb, result, requests, repo_name, branch, release,
                   total, downloaded, nchunks, listing, extracted_folder,
                   exe_found>>

\* line 67
RelReturn ==
    /\ op = "release" /\ pc = "return"
    /\ result' = [kind |-> "path"]
    /\ pc' = "done"
    /\ UNCHANGED <<meta, header, op, url, cb, emitted, exc, excSite, requests, repo_name,
                   branch, release, total, downloaded, nchunks, file, listing,
                   extracted_folder, exe_found>>

\* lines 69-72: the except clause; an exception of the callback here
\* leaves the function
RelHandler ==
    /\ op = "release" /\ pc = "handler"
    /\ \E raises \in BOOLEAN :
          IF cb
          THEN /\ emitted' = Append(emitted,
                      [frac |-> F1, fmt |-> "Failed to download release: {e}",
                       e |-> exc, site |-> 71])
               /\ IF raises
                  THEN /\ pc' = "escaped"
                       /\ UNCHANGED <<result, exc, excSite>>
                  ELSE /\ pc' = "done"
                       /\ result' = NoneResult
                       /\ UNCHANGED <<exc, excSite>>
          ELSE /\ ~raises
               /\ pc' = "done"
               /\ result' = NoneResult
               /\ UNCHANGED <<emitted, exc, excSite>>
    /\ UNCHANGED <<meta, header, op, url, cb, requests, repo_name, branch, release, total,
                   downloaded, nchunks, file, listing, extracted_folder,
                   exe_found>>

(***************************************************************************)
(* Specifications.                                                         *)
(***************************************************************************)
\* both fetchers, on every answer of the network and of the callback
Init == InitWith({"repo", "release"}, FetchUrls)

Next ==
    \/ ResolveName
    \/ ResolveBranch(FewMetaResponses)
    \/ RepoConnect
    \/ RepoRequest(Headers)
    \/ RepoChunk(MaxChunks)
    \/ RepoStreamFails
    \/ RepoStreamEnds
    \/ RepoExtract(FewListings)
    \/ RepoScan
    \/ RepoFinish
    \/ RepoWalk
    \/ RepoHandler
    \/ RelCheck
    \/ RelMeta
    \/ RelAssets
    \/ RelRequest(Headers)
    \/ RelOpen
    \/ RelChunk(MaxChunks)
    \/ RelStreamFails
    \/ RelStreamEnds
    \/ RelReturn
    \/ RelHandler

Spec == Init /\ [][Next]_vars

\* the resolver: lines 77-78 on every URL
InitResolver == InitWith({"repo"}, ResolverUrls)
NextResolver == ResolveName \/ ResolveBranch(MetaResponses)
SpecResolver == InitResolver /\ [][NextResolver]_vars

\* the branch fetcher on every listing of save_path, with a body of at most
\* one chunk
InitScan == InitWith({"repo"}, ScanUrls)
NextScan ==
    \/ ResolveName
    \/ ResolveBranch({[kind |-> "nofield", branch |-> MAIN]})
    \/ RepoConnect
    \/ RepoRequest({[kind |-> "absent", value |-> 0]})
    \/ RepoChunk(1)
    \/ RepoStreamFails
    \/ RepoStreamEnds
    \/ RepoExtract(Listings)
    \/ RepoScan
    \/ RepoFinish
    \/ RepoWalk
    \/ RepoHandler
SpecScan == InitScan /\ [][NextScan]_vars


(***************************************************************************)
(* Properties.                                                             *)
(***************************************************************************)
Finished == pc \in {"done", "escaped"}
Last(q) == q[Len(q)]
Sentinel == IF op = "release" THEN NoneResult
            ELSE [kind |-> "dict", status |-> "error", error |-> exc]
Succeeded == pc = "done" /\ exc = "none"
Failed == pc = "done" /\ exc # "none"

\* C1: whichever step raises, the call returns the sentinel (None, or a record
\* with status "error") after a final emission of 1.0, and no exception
\* leaves download_latest_release or download_github_repo.
C1_NoExceptionEscapes ==
    /\ pc # "escaped"
    /\ Failed => /\ result = Sentinel
                 /\ cb => FEq(Last(emitted).frac, F1)

\* C2: no call of the callback has a fraction below 0.0 or above 1.0, and when
\* the declared content length is 0 or absent the callback is still called
\* with 1.0 as the operation completes, on success and on failure.
C2_FractionInRange ==
    /\ \A i \in 1..Len(emitted) :
          Leq(FZero, emitted[i].frac) /\ Leq(emitted[i].frac, F1)
    /\ (cb /\ Finished /\ header.kind \in {"absent", "int"} /\ total = 0)
          => /\ emitted # <<>>
             /\ FEq(Last(emitted).frac, F1)

C2_Witness ==
    /\ cb /\ Finished /\ header.kind = "absent" /\ downloaded > 0
    /\ FEq(Last(emitted).frac, F1)

IsExtractionReport(i) == FEq(emitted[i].frac, F085)
AfterDownloadPhase(j) == \A k \in 1..Len(emitted) : emitted[k].site = 96 => k < j
PrecededByExtractionReport(i) ==
    \E j \in 1..(i - 1) : IsExtractionReport(j) /\ AfterDownloadPhase(j)

\* C3 as stated: in download_github_repo every emission of the download loop
\* is at most 0.8, and every emission of 1.0 is preceded by an emission of
\* exactly 0.85 that follows all emissions of the download loop.
C3_EveryTerminalAfterExtraction ==
    op = "repo" =>
       /\ \A i \in 1..Len(emitted) :
             emitted[i].site = 96 => Leq(emitted[i].frac, F08)
       /\ \A i \in 1..Len(emitted) :
             FEq(emitted[i].frac, F1) => PrecededByExtractionReport(i)

\* C3 as amended: every emission of the download loop is at most 0.8; the 1.0
\* of the success path (line 115) is preceded by an emission of exactly 0.85
\* that follows all emissions of the download loop; the 1.0 of the except
\* clause (line 132) is preceded by one exactly when the exception was raised
\* at line 99 or later.
C3_SuccessAfterExtraction ==
    op = "repo" =>
       /\ \A i \in 1..Len(emitted) :
             emitted[i].site = 96 => Leq(emitted[i].frac, F08)
       /\ \A i \in 1..Len(emitted) :
             emitted[i].site = 115 => PrecededByExtractionReport(i)
       /\ \A i \in 1..Len(emitted) :
             emitted[i].site = 132 =>
                (PrecededByExtractionReport(i) <=> excSite >= 99)

C3_Witness ==
    /\ op = "repo" /\ Succeeded
    /\ \E i \in 1..Len(emitted) : emitted[i].site = 96 /\ FEq(emitted[i].frac, F08)
    /\ \E i \in 1..Len(emitted) : emitted[i].site = 115

\* the names of the files of a directory tree, at every depth
RECURSIVE FilesBelow(_)
FilesBelow(tree) ==
    {tree[i].name : i \in {k \in 1..Len(tree) : ~tree[k].isdir}}
        \cup UNION {FilesBelow(tree[i].children) :
                        i \in {k \in 1..Len(tree) : tree[k].isdir}}

SameIgnoringCase(a, b) ==
    Len(a) = Len(b) /\ \A k \in 1..Len(a) : LowerChar(a[k]) = LowerChar(b[k])

\* C4: a download_github_repo that completes without error returns "ready"
\* if and only if a file below the returned path, at any depth, is named
\* installerready.exe up to case, and "no_installer" otherwise; both carry the
\* path and the repository name.
C4_ReadyIffInstaller ==
    (op = "repo" /\ Succeeded) =>
       /\ result.status =
             (IF \E n \in FilesBelow(TreeAt(listing, result.path)) :
                     SameIgnoringCase(n, IREXE)
              THEN "ready" ELSE "no_installer")
       /\ result.path = extracted_folder
       /\ result.repo_name = get_repo_name(url.text)

C4_Witness ==
    /\ op = "repo" /\ Succeeded
    /\ result.status = "ready"
    /\ result.path # <<>>
    /\ \A i \in 1..Len(TreeAt(listing, result.path)) :
          TreeAt(listing, result.path)[i].isdir
    /\ IREXE \notin FilesBelow(listing)

\* p occurs in s, case ignored
OccursIgnoringCase(s, p) ==
    \E off \in 0..(Len(s) - Len(p)) :
       \A k \in 1..Len(p) : LowerChar(s[off + k]) = LowerChar(p[k])

Qualifies(i) ==
    listing[i].isdir /\ OccursIgnoringCase(listing[i].name, repo_name)

\* C5: the extracted folder is the first entry of save_dir, in listing order,
\* that is a directory whose name contains the repository name up to case, and
\* save_dir itself when there is none.
C5_FirstMatchingDirectory ==
    (op = "repo" /\ pc \in {"finish", "walk"}) =>
       IF \E i \in 1..Len(listing) : Qualifies(i)
       THEN \E i \in 1..Len(listing) :
               /\ Qualifies(i)
               /\ \A j \in 1..(i - 1) : ~Qualifies(j)
               /\ extracted_folder = <<listing[i].name>>
       ELSE extracted_folder = <<>>

C5_Witness ==
    /\ op = "repo" /\ pc = "walk"
    /\ repo_name = MYREPO
    /\ Len(listing) = 2
    /\ listing[1].name = MYDIR
    /\ extracted_folder = <<MYREPOMAIN>>

StripSuffix(r) ==
    IF EndsWith(r, DOTGIT) THEN SubSeq(r, 1, Len(r) - Len(DOTGIT)) ELSE r

\* C6: for a URL of the form .../github.com/<owner>/<repo>, get_repo_name
\* returns <repo> with a trailing .git removed and nothing else changed; for a
\* URL that does not match it returns "downloaded_repo".
C6_RepoNameStripsSuffix ==
    (op = "repo" /\ pc # "start") =>
       /\ url.kind = "form" => repo_name = StripSuffix(url.repo)
       /\ url.kind = "nomatch" => repo_name = PLACEHOLDER

C8_NoAssets ==
    (op = "release" /\ release \in {"noassets", "empty"}) =>
       /\ \A i \in 1..Len(requests) : requests[i] # "asset"
       /\ ~file.touched
       /\ pc \notin {"assets", "handler"} =>
             /\ pc = "done" /\ result = NoneResult
             /\ cb => /\ FEq(Last(emitted).frac, F1)
                      /\ Last(emitted).e = "No release assets found."

\* C9: within one invocation of either fetcher each fraction passed to the
\* callback is at least the one passed before it.
C9_Monotone ==
    \A i \in 1..(Len(emitted) - 1) : Leq(emitted[i].frac, emitted[i + 1].frac)

\* C10 as stated: whenever download_latest_release returns None, the call has
\* not created, truncated or written save_dir/<asset-name>.
C10_NoPartialFile ==
    (op = "release" /\ pc = "done" /\ result = NoneResult) => ~file.touched

\* C10 as amended: when download_latest_release returns None, the call has
\* created or truncated save_dir/<asset-name> exactly when the exception was
\* raised after open succeeded (line 58 or later); a file it leaves holds the
\* bytes written before the exception.
C10_FileTouchedIffOpened ==
    (op = "release" /\ pc = "done" /\ result = NoneResult) =>
       /\ file.touched <=> excSite >= 58
       /\ file.bytes = downloaded

C10_Witness ==
    /\ op = "release" /\ pc = "done" /\ result = NoneResult
    /\ excSite = 58
    /\ file.touched /\ file.bytes > 0

=============================================================================
